---- MODULE Spec2Model ----
(***************************************************************************)
(* Model of src/main.py (GiftListenerService): the roster refresh loop,    *)
(* the scan loop and its liveness probe, the per-creator listener_loop     *)
(* with its idle_watch task, the on_gift handler with its two sinks, the   *)
(* status loop and the shutdown path.                                      *)
(*                                                                         *)
(* Time is counted in units of 30 s, the period of idle_watch's sleep      *)
(* (main.py:382); that sleep, the idle test and status_loop's sleep of     *)
(* 120 s are timed.  Every other sleep (0.4 s, 5 s, 12 s, 600 s) ends at   *)
(* an arbitrary moment.                                                    *)
(*                                                                         *)
(* Spec       two creators, all loops, within one time unit (the clock     *)
(*            does not advance, so idle_watch never wakes)                 *)
(* SpecTimed  one creator, the clock advances, idle_watch and status_loop  *)
(* SpecStop   Spec plus a request that sets one creator's stopping flag    *)
(* SpecLive   Spec with the fairness of the event loop; the probes of one  *)
(*            creator always answer true                                   *)
(* SpecGift   on_gift over all events and sink outcomes                    *)
(***************************************************************************)
EXTENDS Integers, Sequences, FiniteSets, TLC

\* ------------------------------------------------------------------ bounds
Entities == {"a", "b"}

\* the clock stops advancing at MaxTime
MaxTime == 4

\* at most MaxLaunches listener_loop tasks are created per creator
MaxLaunches == 2

\* rosters the store may return (tiktok_username rows)
Rosters == {<< >>, <<"a">>, <<"a", "b">>}

\* ------------------------------------------------------- configuration
\* IDLE_RECONNECT_SECONDS (env, main.py:34), here 60 s = 2 units
IDLE_RECONNECT_SECONDS == 2

\* asyncio.sleep(120) of status_loop (main.py:480), 4 units
STATUS_SLEEP == 4

\* the literal of `await asyncio.sleep(5)` (main.py:402), in seconds
RETRY_SLEEP == 5

\* the default cap of the wait between sessions (spec.md 4.2), in seconds
BACKOFF_CAP == 60

\* MAX_PROBE_CONCURRENCY (env default, main.py:31)
MAX_PROBE_CONCURRENCY == 20

\* DIAMOND_ALERT_THRESHOLD (env default, main.py:20)
DIAMOND_ALERT_THRESHOLD == 9999

\* values of DIAMOND_ALERT_THRESHOLD the environment may set
Thresholds == {4999, 6000, DIAMOND_ALERT_THRESHOLD}

VARIABLES
    now,            \* time.time(), in units
    phase,          \* "running" | "shutdown": main() before / after its finally
    creators,       \* self.creators
    states,         \* self.states: username -> CreatorState
    tasks,          \* every asyncio task created for listener_loop, per creator
    scan,           \* scan_loop: its position, the list it iterates, the index,
                    \*   the probe clients created and not yet disconnected
    probe_sem,      \* free permits of self.probe_sem
    refreshPc,      \* creator_refresh_loop: "sleep" | "fetching" | "done"
    lastRefresh,    \* outcome of the latest periodic refresh
    statusPc,       \* status_loop: "sleep" | "done"
    statusWake,     \* the time status_loop's sleep ends
    statusLog,      \* the active list status_loop logged last
    threshold,      \* DIAMOND_ALERT_THRESHOLD of this process
    webhook,        \* DISCORD_WEBHOOK_URL is set and self.http exists
    gift,           \* what on_gift did with the latest GiftEvent
    everLive,       \* history: creators some probe of which returned true
    probeFresh,     \* history: creators probed live since their last session ended
    lastActivity,   \* history: time of the latest gift or positive probe
    stalledTick     \* history: status_loop ran a tick with activity older than the stall threshold

vars == <<now, phase, creators, states, tasks, scan, probe_sem, refreshPc,
          lastRefresh, statusPc, statusWake, statusLog, threshold, webhook, gift,
          everLive, probeFresh, lastActivity, stalledTick>>

\* ------------------------------------------------------------ CreatorState
\* task = 0 is None; otherwise the index of the task in tasks[username]
CreatorState(t) == [task |-> 0, last_event |-> t, stopping |-> FALSE]

\* dict.setdefault(username, CreatorState(username))
setdefault(st, u, t) ==
    IF u \in DOMAIN st THEN st
    ELSE [x \in DOMAIN st \cup {u} |-> IF x = u THEN CreatorState(t) ELSE st[x]]

\* ------------------------------------------------------- listener_loop task
\* pc: "start" created, not yet run | "connecting" await client.connect()
\*     "running" await client.run() | "finally" await client.disconnect() in finally
\*     "sleeping" await asyncio.sleep(5) | "done"
\* idle: the idle_watch task, "none" | "sleeping" | "done"
\* idleClosed: "no", or the pc at which idle_watch called client.disconnect()
\* disconnects: calls of client.disconnect() on the current client
\* delay, prevDelay: the argument, in seconds, of the latest call of
\*     asyncio.sleep in the finally block and of the call before it (0: none)
NewTask == [pc |-> "start", cancel |-> FALSE, exc |-> FALSE, idle |-> "none",
            idleWake |-> 0, disconnects |-> 0, openedAt |-> 0,
            idleClosed |-> "no", ran |-> FALSE, delay |-> 0, prevDelay |-> 0]

DoneTask(t) == [NewTask EXCEPT !.pc = "done", !.ran = t.ran]


\* ----------------------------------------------------------------- Init
NoGift == [seen |-> FALSE, diamond_count |-> 0, diamond_value |-> 0,
           repeat_count |-> 0, per_item |-> 0, count |-> 0, total |-> 0,
           trace |-> << >>, raised |-> FALSE]

\* start(): the pool and the http session exist, the first refresh_creators
\* has loaded a roster, gather() has created the four loops
Init ==
    /\ now = 0
    /\ phase = "running"
    /\ creators \in Rosters
    /\ states = [u \in {} |-> CreatorState(0)]
    /\ tasks = [e \in Entities |-> << >>]
    /\ scan = [pc |-> "start", list |-> << >>, idx |-> 0, clients |-> 0]
    /\ probe_sem = MAX_PROBE_CONCURRENCY
    /\ refreshPc = "sleep"
    /\ lastRefresh = "none"
    /\ statusPc = "sleep"
    /\ statusWake = STATUS_SLEEP
    /\ statusLog = {"-"}
    /\ threshold = DIAMOND_ALERT_THRESHOLD
    /\ webhook = TRUE
    /\ gift = NoGift
    /\ everLive = {}
    /\ probeFresh = {}
    /\ lastActivity = 0
    /\ stalledTick = FALSE

\* ----------------------------------------------------------------- time
Tick ==
    /\ now < MaxTime
    /\ now' = now + 1
    /\ UNCHANGED <<phase, creators, states, tasks, scan, probe_sem, refreshPc,
                   lastRefresh, statusPc, statusWake, statusLog, threshold, webhook, gift,
                   everLive, probeFresh, lastActivity, stalledTick>>

\* ------------------------------------------------------ roster refresh
\* a refresh that assigns before the fetch has succeeded
refresh_creators_clears(cur, ok, rows) ==
    [creators |-> IF ok THEN rows ELSE << >>, raised |-> ~ok]

\* refresh_creators: the fetch is awaited first; self.creators is assigned
\* only when it returned rows
refresh_creators(cur, ok, rows) ==
    [creators |-> IF ok THEN rows ELSE cur, raised |-> ~ok]

\* creator_refresh_loop: try/except Exception around refresh_creators
creator_refresh_loop(r) == [creators |-> r.creators, pc |-> "sleep"]

\* asyncio.sleep(CREATOR_REFRESH_SECONDS) ends; pool.fetch is issued
RefreshWake ==
    /\ phase = "running"
    /\ refreshPc = "sleep"
    /\ refreshPc' = "fetching"
    /\ UNCHANGED <<now, phase, creators, states, tasks, scan, probe_sem,
                   lastRefresh, statusPc, statusWake, statusLog, threshold, webhook, gift,
                   everLive, probeFresh, lastActivity, stalledTick>>

\* pool.fetch returns rows or raises
\* a refresh that also drops the states of the creators no longer listed
RefreshResult_pruning(ok, rows) ==
    /\ phase = "running"
    /\ refreshPc = "fetching"
    /\ LET r == creator_refresh_loop(refresh_creators(creators, ok, rows))
       IN  /\ creators' = r.creators
           /\ refreshPc' = r.pc
           /\ states' = [u \in {x \in DOMAIN states :
                                   \E k \in 1 .. Len(r.creators) : r.creators[k] = x}
                            |-> states[u]]
    /\ lastRefresh' = IF ok THEN "ok" ELSE "failed"
    /\ UNCHANGED <<now, phase, tasks, scan, probe_sem,
                   statusPc, statusWake, statusLog, threshold, webhook, gift,
                   everLive, probeFresh, lastActivity, stalledTick>>

RefreshResult(ok, rows) ==
    /\ phase = "running"
    /\ refreshPc = "fetching"
    /\ LET r == creator_refresh_loop(refresh_creators(creators, ok, rows))
       IN  /\ creators' = r.creators
           /\ refreshPc' = r.pc
    /\ lastRefresh' = IF ok THEN "ok" ELSE "failed"
    /\ UNCHANGED <<now, phase, states, tasks, scan, probe_sem,
                   statusPc, statusWake, statusLog, threshold, webhook, gift,
                   everLive, probeFresh, lastActivity, stalledTick>>

RefreshOk(R) == \E rows \in R : RefreshResult(TRUE, rows)

RefreshFail == RefreshResult(FALSE, << >>)


\* ------------------------------------------------------------ scan_loop
\* a scan that launches without looking at the recorded task
Supervised_unchecked(st, tk, u) == FALSE

\* `state.task and not state.task.done()`
Supervised(st, tk, u) ==
    /\ u \in DOMAIN st
    /\ st[u].task # 0
    /\ tk[u][st[u].task].pc # "done"

\* the `for username in list` loop run from index i up to its next await:
\* entries whose task is running are passed with `continue`, without a
\* suspension; the result is the index of the first entry to probe, or
\* Len(list) + 1 when the pass is over
RECURSIVE SkipTo(_, _, _, _)
SkipTo(list, i, st, tk) ==
    IF i > Len(list) THEN i
    ELSE IF Supervised(st, tk, list[i]) THEN SkipTo(list, i + 1, st, tk)
    ELSE i

\* self.states.setdefault for every entry the loop has reached
RECURSIVE Registered(_, _, _, _, _)
Registered(list, i, j, st, t) ==
    IF i > j \/ i > Len(list) THEN st
    ELSE Registered(list, i + 1, j, setdefault(st, list[i], t), t)

\* is_live with a probe that lets an error count as live
is_live_optimistic(outcome) == outcome # "not_live"

\* is_live: the value of client.is_live(); a timeout of wait_for or any
\* other exception gives False
is_live(outcome) == outcome = "live"

ProbeOutcomes == {"live", "not_live", "timeout", "error"}

\* an is_live that disconnects and releases on the path of a returned
\* answer only
is_live_exit_leaky(sem, clients, outcome) ==
    IF outcome \in {"timeout", "error"}
    THEN [sem |-> sem, clients |-> clients]
    ELSE [sem |-> sem + 1, clients |-> clients - 1]

\* the way out of is_live: the finally block calls client.disconnect(),
\* then `async with self.probe_sem` releases the permit, on every path
is_live_exit(sem, clients, outcome) ==
    [sem |-> sem + 1, clients |-> clients - 1]

\* scan_loop resumed at index i of list: runs to its next await
ScanAdvance(list, i) ==
    LET j == SkipTo(list, i, states, tasks)
    IN  /\ states' = Registered(list, i, j, states, now)
        /\ IF j > Len(list)
           THEN /\ scan' = [pc |-> "pass_sleep", list |-> << >>, idx |-> 0,
                              clients |-> scan.clients]
                /\ probe_sem' = probe_sem
           ELSE /\ probe_sem > 0
                /\ scan' = [pc |-> "probing", list |-> list, idx |-> j,
                              clients |-> scan.clients + 1]
                /\ probe_sem' = probe_sem - 1

\* scan_loop's first step
ScanBegin ==
    /\ phase = "running"
    /\ scan.pc = "start"
    /\ ScanAdvance(creators, 1)
    /\ UNCHANGED <<now, phase, creators, tasks, refreshPc, lastRefresh,
                   statusPc, statusWake, statusLog, threshold, webhook, gift,
                   everLive, probeFresh, lastActivity, stalledTick>>

\* a scan that creates the task and does not keep its handle
ScanProbeResult_unrecorded(outcome) ==
    /\ phase = "running"
    /\ scan.pc = "probing"
    /\ LET u == scan.list[scan.idx]
       IN  IF outcome = "live"
           THEN /\ Len(tasks[u]) < MaxLaunches
                /\ tasks' = [tasks EXCEPT ![u] = Append(@, NewTask)]
                /\ lastActivity' = now
                /\ UNCHANGED states
           ELSE UNCHANGED <<tasks, states, lastActivity>>
    /\ everLive' = IF outcome = "live" THEN everLive \cup {scan.list[scan.idx]}
                   ELSE everLive
    /\ probeFresh' = IF outcome = "live" THEN probeFresh \cup {scan.list[scan.idx]}
                     ELSE probeFresh
    /\ LET x == is_live_exit(probe_sem, scan.clients, outcome)
       IN  /\ probe_sem' = x.sem
           /\ scan' = [scan EXCEPT !.pc = "delay", !.clients = x.clients]
    /\ UNCHANGED <<now, phase, creators, refreshPc, lastRefresh,
                   statusPc, statusWake, statusLog, threshold, webhook, gift, stalledTick>>

\* is_live returns: the probe client is disconnected, the permit released;
\* on True the listener_loop task is created and recorded
ScanProbeResult(outcome) ==
    /\ phase = "running"
    /\ scan.pc = "probing"
    /\ LET u == scan.list[scan.idx]
       IN  IF is_live(outcome)
           THEN /\ Len(tasks[u]) < MaxLaunches
                /\ tasks' = [tasks EXCEPT ![u] = Append(@, NewTask)]
                /\ states' = [states EXCEPT ![u].task = Len(tasks[u]) + 1]
                /\ lastActivity' = now
           ELSE UNCHANGED <<tasks, states, lastActivity>>
    /\ everLive' = IF outcome = "live" THEN everLive \cup {scan.list[scan.idx]}
                   ELSE everLive
    /\ probeFresh' = IF outcome = "live" THEN probeFresh \cup {scan.list[scan.idx]}
                     ELSE probeFresh
    /\ LET x == is_live_exit(probe_sem, scan.clients, outcome)
       IN  /\ probe_sem' = x.sem
           /\ scan' = [scan EXCEPT !.pc = "delay", !.clients = x.clients]
    /\ UNCHANGED <<now, phase, creators, refreshPc, lastRefresh,
                   statusPc, statusWake, statusLog, threshold, webhook, gift, stalledTick>>

ScanProbe == \E outcome \in ProbeOutcomes : ScanProbeResult(outcome)

\* a loop that indexes self.creators anew at every step
PassList_live(snapshot, current) == current

\* the list the running `for username in self.creators` draws from: the
\* list object that was self.creators when the for statement began;
\* refresh_creators binds self.creators to a new list and leaves that
\* object alone
PassList(snapshot, current) == snapshot

\* asyncio.sleep(SCAN_DELAY_BETWEEN_CREATORS) ends: next entry of the same list
ScanDelayDone ==
    /\ phase = "running"
    /\ scan.pc = "delay"
    /\ ScanAdvance(PassList(scan.list, creators), scan.idx + 1)
    /\ UNCHANGED <<now, phase, creators, tasks, refreshPc, lastRefresh,
                   statusPc, statusWake, statusLog, threshold, webhook, gift,
                   everLive, probeFresh, lastActivity, stalledTick>>

\* asyncio.sleep(SCAN_SLEEP_BETWEEN_PASSES) ends: a new pass over self.creators
ScanPassSleepDone ==
    /\ phase = "running"
    /\ scan.pc = "pass_sleep"
    /\ ScanAdvance(creators, 1)
    /\ UNCHANGED <<now, phase, creators, tasks, refreshPc, lastRefresh,
                   statusPc, statusWake, statusLog, threshold, webhook, gift,
                   everLive, probeFresh, lastActivity, stalledTick>>


\* -------------------------------------------------------- listener_loop
TaskIds(e) == 1 .. Len(tasks[e])

stopping(e) == e \in DOMAIN states /\ states[e].stopping

\* a listener_loop with `if` for `while`: one session, then the task ends
LoopHead_once(e, t) ==
    IF t.ran \/ (e \in DOMAIN states /\ states[e].stopping) THEN DoneTask(t)
    ELSE [t EXCEPT !.pc = "connecting", !.idle = "sleeping",
                   !.idleWake = now + 1, !.disconnects = 0,
                   !.openedAt = 0, !.idleClosed = "no", !.ran = TRUE]

\* the test of `while not state.stopping` and, when it passes, the body up
\* to `await client.connect()`: a new client, a new idle_watch task
LoopHead(e, t) ==
    IF stopping(e) THEN DoneTask(t)
    ELSE [t EXCEPT !.pc = "connecting", !.idle = "sleeping",
                   !.idleWake = now + 1, !.disconnects = 0,
                   !.openedAt = 0, !.idleClosed = "no", !.ran = TRUE]

\* a listener_loop without its `except Exception: pass`: whatever ends the
\* session is still pending when the finally block is left
EnterFinally_uncaught(t, exc) ==
    [t EXCEPT !.pc = "finally", !.idle = "none", !.idleWake = 0,
              !.disconnects = @ + 1, !.exc = TRUE, !.cancel = FALSE]

\* entry of the finally block: idle_task.cancel(), then client.disconnect()
\* is called and awaited
EnterFinally(t, exc) ==
    [t EXCEPT !.pc = "finally", !.idle = "none", !.idleWake = 0,
              !.disconnects = @ + 1, !.exc = exc, !.cancel = FALSE]

ListenerFrame == <<now, phase, creators, scan, probe_sem, refreshPc,
                   lastRefresh, statusPc, statusWake, statusLog, threshold, webhook,
                   everLive, stalledTick>>

\* the task runs for the first time
ListenerStart(e, i) ==
    /\ tasks[e][i].pc = "start"
    /\ ~tasks[e][i].cancel
    /\ tasks' = [tasks EXCEPT ![e][i] = LoopHead(e, @)]
    /\ UNCHANGED <<states, gift, probeFresh, lastActivity>>
    /\ UNCHANGED ListenerFrame

\* client.connect() returns: the session is open
ConnectOk(e, i) ==
    /\ tasks[e][i].pc = "connecting"
    /\ ~tasks[e][i].cancel
    /\ tasks' = [tasks EXCEPT ![e][i] = [@ EXCEPT !.pc = "running", !.openedAt = now]]
    /\ UNCHANGED <<states, gift, probeFresh, lastActivity>>
    /\ UNCHANGED ListenerFrame

\* client.connect() raises
ConnectFail(e, i) ==
    /\ tasks[e][i].pc = "connecting"
    /\ ~tasks[e][i].cancel
    /\ tasks' = [tasks EXCEPT ![e][i] = EnterFinally(@, FALSE)]
    /\ UNCHANGED <<states, gift, probeFresh, lastActivity>>
    /\ UNCHANGED ListenerFrame

\* client.run() returns or raises: closed by the remote side, by idle_watch,
\* or by an error
RunEnds(e, i) ==
    /\ tasks[e][i].pc = "running"
    /\ ~tasks[e][i].cancel
    /\ tasks' = [tasks EXCEPT ![e][i] = EnterFinally(@, FALSE)]
    /\ probeFresh' = probeFresh \ {e}
    /\ UNCHANGED <<states, gift, lastActivity>>
    /\ UNCHANGED ListenerFrame

\* a wait that shrinks from one retry to the next
retry_delay_decaying(prev) == IF prev = 0 THEN RETRY_SLEEP ELSE prev - 1

\* the wait before the next connect, given the wait before this one: the
\* same literal every time
retry_delay(prev) == RETRY_SLEEP

\* a finally block that sleeps without looking at state.stopping
AfterDisconnect_always_sleeps(e, t) ==
    [t EXCEPT !.pc = "sleeping", !.prevDelay = t.delay, !.delay = RETRY_SLEEP]

\* the finally block after client.disconnect() returned or raised:
\* `if not state.stopping: await asyncio.sleep(5)`, then a pending
\* CancelledError leaves the task, otherwise the loop test follows
AfterDisconnect(e, t) ==
    IF ~stopping(e)
    THEN [t EXCEPT !.pc = "sleeping", !.prevDelay = t.delay,
                   !.delay = retry_delay(t.delay)]
    ELSE IF t.exc THEN DoneTask(t)
    ELSE LoopHead(e, t)

FinallyDone(e, i) ==
    /\ tasks[e][i].pc = "finally"
    /\ ~tasks[e][i].cancel
    /\ tasks' = [tasks EXCEPT ![e][i] = AfterDisconnect(e, @)]
    /\ UNCHANGED <<states, gift, probeFresh, lastActivity>>
    /\ UNCHANGED ListenerFrame

\* asyncio.sleep(5) ends
SleepDone(e, i) ==
    /\ tasks[e][i].pc = "sleeping"
    /\ ~tasks[e][i].cancel
    /\ tasks' = [tasks EXCEPT ![e][i] = IF @.exc THEN DoneTask(@) ELSE LoopHead(e, @)]
    /\ UNCHANGED <<states, gift, probeFresh, lastActivity>>
    /\ UNCHANGED ListenerFrame

\* task.cancel() takes effect at the await the task is suspended in:
\* CancelledError is no Exception, so `except Exception` lets it through;
\* raised in connect() or run() it passes through the finally block,
\* raised in the finally block it leaves the task
Cancelled(e, i) ==
    /\ tasks[e][i].cancel
    /\ tasks[e][i].pc # "done"
    /\ tasks' = [tasks EXCEPT ![e][i] =
                    IF @.pc \in {"connecting", "running"}
                    THEN EnterFinally(@, TRUE)
                    ELSE DoneTask(@)]
    /\ probeFresh' = IF tasks[e][i].pc = "running"
                     THEN probeFresh \ {e} ELSE probeFresh
    /\ UNCHANGED <<states, gift, lastActivity>>
    /\ UNCHANGED ListenerFrame

\* ----------------------------------------------------------- idle_watch
IdleAwake(e, i) ==
    /\ tasks[e][i].idle = "sleeping"
    /\ tasks[e][i].pc \in {"connecting", "running"}
    /\ now >= tasks[e][i].idleWake

\* `time.time() - state.last_event > IDLE_RECONNECT_SECONDS`
IdleExpired(e) == now - states[e].last_event > IDLE_RECONNECT_SECONDS

\* asyncio.sleep(30) ends and the session is idle: client.disconnect(), return
IdleClose(e, i) ==
    /\ IdleAwake(e, i)
    /\ IdleExpired(e)
    /\ tasks' = [tasks EXCEPT ![e][i] = [@ EXCEPT !.idle = "done", !.idleWake = 0,
                                            !.disconnects = @ + 1,
                                            !.idleClosed = tasks[e][i].pc]]
    /\ UNCHANGED <<states, gift, probeFresh, lastActivity>>
    /\ UNCHANGED ListenerFrame

\* asyncio.sleep(30) ends and the session is not idle: sleep again
IdleSleepAgain(e, i) ==
    /\ IdleAwake(e, i)
    /\ ~IdleExpired(e)
    /\ tasks' = [tasks EXCEPT ![e][i] = [@ EXCEPT !.idleWake = now + 1]]
    /\ UNCHANGED <<states, gift, probeFresh, lastActivity>>
    /\ UNCHANGED ListenerFrame


\* -------------------------------------------------------------- on_gift
\* GiftEvent fields read by on_gift; an attribute that is missing reads as
\* getattr's default 0
GiftEvents ==
    [diamond_count : {0, 500}, diamond_value : {0, 5}, repeat_count : {0, 1, 12}]

\* log_gift with the insert outside any try block
log_gift_unguarded(insertOk) ==
    [trace |-> IF insertOk THEN <<"insert">> ELSE <<"insert", "insert_error">>,
     raised |-> ~insertOk]

\* log_gift: pool.execute inside try/except Exception: pass
log_gift(insertOk) ==
    [trace |-> IF insertOk THEN <<"insert">> ELSE <<"insert", "insert_error">>,
     raised |-> FALSE]

\* _github_image_url_if_exists: http.get inside try/except Exception: pass
github_image_url_if_exists(imageOk) ==
    [trace |-> IF imageOk THEN <<"image_lookup">>
               ELSE <<"image_lookup", "image_error">>,
     raised |-> FALSE]

\* send_discord: returns at once without a webhook or an http session;
\* otherwise the image lookup, then http.post inside try/except
send_discord(wh, imageOk, postOk) ==
    IF ~wh THEN [trace |-> <<"send_discord">>, raised |-> FALSE]
    ELSE LET img == github_image_url_if_exists(imageOk)
         IN  IF img.raised
             THEN [trace |-> <<"send_discord">> \o img.trace, raised |-> TRUE]
             ELSE [trace |-> <<"send_discord">> \o img.trace \o
                             (IF postOk THEN <<"post">> ELSE <<"post", "post_error">>),
                   raised |-> FALSE]

\* an alert rule that leaves out the boundary
AlertDue_strict(total, thr) == total > thr

\* `if total >= DIAMOND_ALERT_THRESHOLD`
AlertDue(total, thr) == total >= thr

\* the handler body after `state.last_event = time.time()`
on_gift(ev, thr, wh, insertOk, imageOk, postOk) ==
    LET diamonds == IF ev.diamond_count # 0 THEN ev.diamond_count
                    ELSE ev.diamond_value
        total == diamonds * ev.repeat_count
        lg == log_gift(insertOk)
        sd == send_discord(wh, imageOk, postOk)
        base == [seen |-> TRUE, diamond_count |-> ev.diamond_count,
                 diamond_value |-> ev.diamond_value,
                 repeat_count |-> ev.repeat_count,
                 per_item |-> diamonds, count |-> ev.repeat_count,
                 total |-> total, trace |-> lg.trace, raised |-> lg.raised]
    IN  IF lg.raised THEN base
        ELSE IF AlertDue(total, thr)
        THEN [base EXCEPT !.trace = lg.trace \o sd.trace, !.raised = sd.raised]
        ELSE base

\* a GiftEvent arrives on an open session
OnGift(e, i, ev, insertOk, imageOk, postOk) ==
    /\ tasks[e][i].pc = "running"
    /\ tasks[e][i].idleClosed # "running"
    /\ ~tasks[e][i].cancel
    /\ states' = [states EXCEPT ![e].last_event = now]
    /\ gift' = on_gift(ev, threshold, webhook, insertOk, imageOk, postOk)
    /\ lastActivity' = now
    /\ UNCHANGED <<tasks, probeFresh>>
    /\ UNCHANGED ListenerFrame

\* ---------------------------------------------------------- status_loop
\* the stall threshold of the watchdog (spec.md 4.5), in units
StallThreshold == 2

\* `s.task and not s.task.done()` over self.states
ActiveListeners ==
    {u \in DOMAIN states : states[u].task # 0 /\ tasks[u][states[u].task].pc # "done"}

\* asyncio.sleep(120) ends: the active list is computed and logged
StatusTick ==
    /\ phase = "running"
    /\ statusPc = "sleep"
    /\ now >= statusWake
    /\ statusWake' = now + STATUS_SLEEP
    /\ statusLog' = ActiveListeners
    /\ stalledTick' = (stalledTick \/ now - lastActivity > StallThreshold)
    /\ UNCHANGED <<now, phase, creators, states, tasks, scan, probe_sem,
                   refreshPc, lastRefresh, statusPc, threshold, webhook, gift,
                   everLive, probeFresh, lastActivity>>

\* ------------------------------------------------------------- shutdown
\* main(): start() ends when gather() is cancelled, which cancels the four
\* loops (a probe in flight leaves `async with self.probe_sem`); the
\* finally block then runs shutdown(): every state gets stopping = True
\* and its task, if any, is cancelled
Shutdown ==
    /\ phase = "running"
    /\ phase' = "shutdown"
    /\ scan' = [pc |-> "done", list |-> << >>, idx |-> 0, clients |-> 0]
    /\ probe_sem' = MAX_PROBE_CONCURRENCY
    /\ refreshPc' = "done"
    /\ statusPc' = "done"
    /\ statusWake' = 0
    /\ states' = [u \in DOMAIN states |-> [states[u] EXCEPT !.stopping = TRUE]]
    /\ tasks' = [e \in Entities |->
                   [i \in 1 .. Len(tasks[e]) |->
                      IF e \in DOMAIN states /\ states[e].task = i
                         /\ tasks[e][i].pc # "done"
                      THEN [tasks[e][i] EXCEPT !.cancel = TRUE]
                      ELSE tasks[e][i]]]
    /\ UNCHANGED <<now, creators, lastRefresh, statusLog, threshold, webhook,
                   gift, everLive, probeFresh, lastActivity, stalledTick>>

\* ----------------------------------------------------------------- Next
\* the event and the sink outcomes drawn where the sinks are not examined
ScanEvent == [diamond_count |-> 500, diamond_value |-> 0, repeat_count |-> 12]

Listener ==
    \E e \in Entities : \E i \in TaskIds(e) :
        \/ ListenerStart(e, i)
        \/ ConnectOk(e, i)
        \/ ConnectFail(e, i)
        \/ RunEnds(e, i)
        \/ FinallyDone(e, i)
        \/ SleepDone(e, i)
        \/ Cancelled(e, i)
        \/ OnGift(e, i, ScanEvent, TRUE, TRUE, TRUE)

IdleWatch ==
    \E e \in Entities : \E i \in TaskIds(e) :
        \/ IdleClose(e, i)
        \/ IdleSleepAgain(e, i)

Next ==
    \/ RefreshWake
    \/ RefreshOk(Rosters)
    \/ RefreshFail
    \/ ScanBegin
    \/ ScanProbe
    \/ ScanDelayDone
    \/ ScanPassSleepDone
    \/ Listener
    \/ Shutdown

Spec == Init /\ [][Next]_vars

\* ------------------------------------------------------------ SpecTimed
TimedRosters == {r \in Rosters : \A k \in 1 .. Len(r) : r[k] = "a"}

InitTimed == Init /\ creators \in TimedRosters

NextTimed ==
    \/ Tick
    \/ RefreshWake
    \/ RefreshOk(TimedRosters)
    \/ RefreshFail
    \/ ScanBegin
    \/ ScanProbe
    \/ ScanDelayDone
    \/ ScanPassSleepDone
    \/ Listener
    \/ IdleWatch
    \/ StatusTick
    \/ Shutdown

SpecTimed == InitTimed /\ [][NextTimed]_vars


\* ------------------------------------------------------------- SpecStop
\* a stop request for one creator (spec.md 5, Cancellation): its stopping
\* flag is set; the task is not cancelled
RequestStop(e) ==
    /\ phase = "running"
    /\ e \in DOMAIN states
    /\ ~states[e].stopping
    /\ states' = [states EXCEPT ![e].stopping = TRUE]
    /\ UNCHANGED <<now, phase, creators, tasks, scan, probe_sem, refreshPc,
                   lastRefresh, statusPc, statusWake, statusLog, threshold, webhook, gift,
                   everLive, probeFresh, lastActivity, stalledTick>>

NextStop ==
    \/ Next
    \/ \E e \in Entities : RequestStop(e)

SpecStop == Init /\ [][NextStop]_vars

\* ------------------------------------------------------------- SpecLive
\* Spec with the scheduling of the event loop stated: a sleep ends, a probe
\* returns (wait_for bounds it by PROBE_TIMEOUT), a task that was created
\* is run, a cancellation is delivered, client.disconnect() returns.
\* Creators of Active are live throughout: every probe of theirs that
\* completes answers true.
Active == {"a"}

ScanProbeLive ==
    \E outcome \in ProbeOutcomes :
        /\ scan.pc = "probing"
        /\ scan.list[scan.idx] \in Active => outcome = "live"
        /\ ScanProbeResult(outcome)

ListenerProgress ==
    \E e \in Entities : \E i \in TaskIds(e) :
        \/ ListenerStart(e, i)
        \/ FinallyDone(e, i)
        \/ SleepDone(e, i)
        \/ Cancelled(e, i)

NextLive ==
    \/ RefreshWake
    \/ RefreshOk(Rosters)
    \/ RefreshFail
    \/ ScanBegin
    \/ ScanProbeLive
    \/ ScanDelayDone
    \/ ScanPassSleepDone
    \/ Listener
    \/ Shutdown

SpecLive ==
    /\ Init
    /\ [][NextLive]_vars
    /\ WF_vars(ScanBegin)
    /\ WF_vars(ScanProbeLive)
    /\ WF_vars(ScanDelayDone)
    /\ WF_vars(ScanPassSleepDone)
    /\ WF_vars(ListenerProgress)

\* ------------------------------------------------------------- SpecGift
\* a session for creator "a" is open (ListenerStart and ConnectOk have run)
InitGift ==
    /\ now = 0
    /\ phase = "running"
    /\ creators = <<"a">>
    /\ states = [u \in {"a"} |-> [CreatorState(0) EXCEPT !.task = 1]]
    /\ tasks = [e \in Entities |->
                  IF e = "a"
                  THEN <<[NewTask EXCEPT !.pc = "running", !.idle = "sleeping",
                                         !.idleWake = 1, !.ran = TRUE]>>
                  ELSE << >>]
    /\ scan = [pc |-> "delay", list |-> <<"a">>, idx |-> 1, clients |-> 0]
    /\ probe_sem = MAX_PROBE_CONCURRENCY
    /\ refreshPc = "sleep"
    /\ lastRefresh = "none"
    /\ statusPc = "sleep"
    /\ statusWake = STATUS_SLEEP
    /\ statusLog = {"-"}
    /\ threshold \in Thresholds
    /\ webhook \in BOOLEAN
    /\ gift = NoGift
    /\ everLive = {"a"}
    /\ probeFresh = {"a"}
    /\ lastActivity = 0
    /\ stalledTick = FALSE

NextGift ==
    \E ev \in GiftEvents : \E insertOk \in BOOLEAN :
        \E imageOk \in BOOLEAN : \E postOk \in BOOLEAN :
            OnGift("a", 1, ev, insertOk, imageOk, postOk)

SpecGift == InitGift /\ [][NextGift]_vars


\* =============================================================== claims
Running(e) == {i \in TaskIds(e) : tasks[e][i].pc # "done"}

InTrace(tag) == \E k \in 1 .. Len(gift.trace) : gift.trace[k] = tag

\* C1 (Spec): in every reachable state each creator has at most one
\* listener_loop task that is not done, so scan_loop never creates a task
\* for a creator whose recorded task exists and is not done.
C1_OneTaskPerCreator ==
    \A e \in Entities : Cardinality(Running(e)) <= 1

\* creator "a" has an open session while scan_loop, having passed "a",
\* probes "b"
C1_Witness ==
    /\ Running("a") = {1}
    /\ tasks["a"][1].pc = "running"
    /\ scan.pc = "probing"
    /\ scan.list = <<"a", "b">>
    /\ scan.idx = 2

\* C2 (Spec): a creator none of whose probes returned true (each returned
\* false, timed out or raised) never gets a listener_loop task.
C2_NoTaskWithoutPositiveProbe ==
    \A e \in Entities : Len(tasks[e]) > 0 => e \in everLive

\* the probe of "a" has just ended without a positive answer and nothing
\* was launched
C2_Witness ==
    /\ scan.pc = "delay"
    /\ scan.list[scan.idx] = "a"
    /\ "a" \notin everLive
    /\ tasks["a"] = << >>

\* C3 (Spec): a session is opened for a creator only after a positive
\* probe of that creator made since its previous session ended.
C3_ProbeBeforeEveryOpen ==
    \A e \in Entities : \A i \in TaskIds(e) :
        tasks[e][i].pc = "connecting" => e \in probeFresh

\* C4 (SpecTimed): idle_watch closes a session only when at least the idle
\* threshold has passed since the session was opened (last_event being
\* reset to the time of opening).
C4_NoIdleCloseBeforeThreshold ==
    \A e \in Entities : \A i \in TaskIds(e) :
        (tasks[e][i].idleClosed = "running" /\ tasks[e][i].pc = "running")
            => now - tasks[e][i].openedAt >= IDLE_RECONNECT_SECONDS

\* C5 (SpecTimed): a session that idle_watch closed has had
\* client.disconnect() called on it exactly once.
C5_SingleCloseOnIdle ==
    \A e \in Entities : \A i \in TaskIds(e) :
        tasks[e][i].idleClosed = "running" => tasks[e][i].disconnects <= 1

\* C6 (SpecStop): once a creator's stopping flag has been set and its
\* supervisor has stopped, a supervision task launched again for it runs:
\* while the process runs, no re-launched task ends without having reached
\* client.connect().
C6_RelaunchRuns ==
    \A e \in Entities : \A i \in TaskIds(e) :
        (i > 1 /\ tasks[e][i].pc = "done" /\ phase = "running")
            => tasks[e][i].ran

\* C7 (Spec): a periodic refresh whose store read raises leaves
\* self.creators as it was, leaves creator_refresh_loop in its sleep, and
\* does not touch scan_loop.
C7_FailedRefreshKeepsRoster ==
    [][(/\ refreshPc = "fetching"
        /\ refreshPc' # "fetching"
        /\ phase' = "running"
        /\ lastRefresh' = "failed")
       => (/\ creators' = creators
           /\ refreshPc' = "sleep"
           /\ scan' = scan)]_vars

\* the latest refresh failed, the roster is still loaded and scan_loop is
\* probing an entry of it
C7_Witness ==
    /\ lastRefresh = "failed"
    /\ refreshPc = "sleep"
    /\ creators = <<"a", "b">>
    /\ scan.pc = "probing"
    /\ scan.list = creators

\* C8 (SpecTimed): once status_loop has run a tick at which the latest
\* global activity was older than the stall threshold, the process has
\* been terminated.
C8_StallTerminates ==
    stalledTick => phase # "running"

\* C9 (SpecGift): for every handled event the insert is attempted first,
\* the handler does not raise whatever the sinks do, and a total at or
\* above the threshold reaches send_discord (and, with a webhook, the
\* post) whether or not the insert or the image lookup failed.
C9_SinksIndependent ==
    gift.seen =>
        /\ gift.trace[1] = "insert"
        /\ ~gift.raised
        /\ gift.total >= threshold => InTrace("send_discord")
        /\ (gift.total >= threshold /\ webhook) => InTrace("post")

\* the insert failed, the image lookup failed, the post failed: the event
\* still went through both sinks
C9_Witness ==
    /\ gift.seen
    /\ InTrace("insert_error")
    /\ InTrace("image_error")
    /\ InTrace("post_error")

\* C10 (SpecGift): the total is the per-item value times the repeat count,
\* and send_discord is called exactly when total >= threshold; 500 x 12 is
\* 6000, an alert at threshold 4999, none at 9999.
C10_TotalAndThreshold ==
    gift.seen =>
        /\ gift.total = gift.per_item * gift.repeat_count
        /\ InTrace("send_discord") <=> gift.total >= threshold
        /\ (gift.diamond_count = 500 /\ gift.repeat_count = 12) =>
              /\ gift.total = 6000
              /\ threshold = 4999 => InTrace("send_discord")
              /\ threshold = 9999 => ~InTrace("send_discord")

\* a total equal to the threshold raised an alert
C10_Witness ==
    /\ gift.seen
    /\ gift.total = 6000
    /\ threshold = 6000
    /\ InTrace("send_discord")

\* C11 (Spec): for each listener_loop task, every wait between two
\* sessions is at least as long as the wait before it and at most the cap.
C11_DelaysNonDecreasingCapped ==
    \A e \in Entities : \A i \in TaskIds(e) :
        /\ tasks[e][i].prevDelay <= tasks[e][i].delay
        /\ tasks[e][i].delay <= BACKOFF_CAP

\* creator "a" is in its second wait in a row, after two sessions that
\* failed or ended
C11_Witness ==
    /\ tasks["a"] # << >>
    /\ tasks["a"][1].pc = "sleeping"
    /\ tasks["a"][1].prevDelay > 0

\* C12 (Spec): every time a listener_loop task enters its wait between
\* sessions, the CreatorState of its creator holds a reconnect_attempts
\* counter whose value is greater than before that entry.
C12_AttemptsCounted ==
    [][\A e \in Entities : \A i \in TaskIds(e) :
          (tasks[e][i].pc # "sleeping" /\ tasks'[e][i].pc = "sleeping")
              => /\ "reconnect_attempts" \in DOMAIN states[e]
                 /\ "reconnect_attempts" \in DOMAIN states'[e]
                 /\ states'[e].reconnect_attempts > states[e].reconnect_attempts]_vars

\* C13 (Spec): while a pass of scan_loop is in progress the list it visits
\* and the order of the visit stay what they were when the pass began,
\* whatever refresh_creators does meanwhile; a step that changes
\* self.creators leaves scan_loop where it is; each new pass visits
\* self.creators as it is when that pass begins.
C13_PassIsSnapshot ==
    [][/\ (scan.pc \in {"probing", "delay"} /\ scan'.pc \in {"probing", "delay"})
            => (scan'.list = scan.list /\ scan'.idx >= scan.idx)
       /\ (scan.pc \in {"start", "pass_sleep"} /\ scan'.pc = "probing")
            => scan'.list = creators
       /\ creators' # creators => scan' = scan]_vars

\* a refresh removed "b" from the roster during a pass over <<"a", "b">>,
\* and the pass has gone on to probe "b"
C13_Witness ==
    /\ lastRefresh = "ok"
    /\ creators = <<"a">>
    /\ scan.pc = "delay"
    /\ scan.list = <<"a", "b">>
    /\ scan.idx = 2

\* the creator's recorded task exists and is not done
Sup(e) == e \in DOMAIN states /\ states[e].task \in Running(e)

InRoster(e) == \E k \in 1 .. Len(creators) : creators[k] = e

\* C14 (SpecLive): scan_loop passes over no roster entry that is not
\* supervised: the entries between two probes of a pass, after the last
\* probe of a pass and before the first one are all supervised; a probe
\* that answers true is followed, before the delay, by a new task whose
\* handle is recorded in the creator's state; and a creator that is in the
\* roster, answers its probes true and is not supervised, is supervised
\* later on, unless it leaves the roster or the process shuts down.
C14_UnsupervisedProbedAndLaunched ==
    /\ [][/\ (scan.pc = "delay" /\ scan'.pc = "probing")
               => \A k \in scan.idx + 1 .. scan'.idx - 1 : Sup(scan.list[k])
          /\ (scan.pc = "delay" /\ scan'.pc = "pass_sleep")
               => \A k \in scan.idx + 1 .. Len(scan.list) : Sup(scan.list[k])
          /\ (scan.pc \in {"start", "pass_sleep"} /\ scan'.pc = "probing")
               => \A k \in 1 .. scan'.idx - 1 : Sup(creators[k])
          /\ (scan.pc = "probing" /\ scan'.pc = "delay"
                /\ scan.list[scan.idx] \in probeFresh' \ probeFresh)
               => LET u == scan.list[scan.idx]
                  IN  /\ Len(tasks'[u]) = Len(tasks[u]) + 1
                      /\ states'[u].task = Len(tasks'[u])
                      /\ tasks'[u][Len(tasks'[u])].pc = "start"]_vars
    /\ \A e \in Active :
          (InRoster(e) /\ ~Sup(e)) ~> (Sup(e) \/ ~InRoster(e) \/ phase = "shutdown")

\* "a" was passed as supervised and "b", not live so far, is probed again
C14_Witness ==
    /\ Sup("a")
    /\ scan.pc = "probing"
    /\ scan.list = <<"a", "b">>
    /\ scan.idx = 2
    /\ "b" \in DOMAIN states
    /\ "b" \notin everLive

\* C15 (Spec): while the process runs, scan_loop has not ended and no
\* listener_loop task has ended.  A connect() or run() that fails or ends
\* leaves scan_loop and every other creator's tasks as they were, and its
\* own task goes through the finally block into the wait and from the wait
\* to the next connect().  A probe that returns, whatever its outcome,
\* leaves scan_loop at the delay after the same entry and changes no
\* existing task.
C15_FailuresContained ==
    /\ [](phase = "running" =>
            /\ scan.pc # "done"
            /\ \A e \in Entities : \A i \in TaskIds(e) : tasks[e][i].pc # "done")
    /\ [][\A e \in Entities : \A i \in TaskIds(e) :
            /\ (tasks[e][i].pc \in {"connecting", "running"} /\ ~tasks[e][i].cancel
                  /\ tasks'[e][i].pc = "finally")
                 => /\ ~tasks'[e][i].exc
                    /\ scan' = scan
                    /\ phase' = phase
                    /\ \A f \in Entities \ {e} : tasks'[f] = tasks[f]
            /\ (tasks[e][i].pc = "finally" /\ ~tasks[e][i].cancel
                  /\ phase' = "running" /\ tasks'[e][i].pc # "finally")
                 => tasks'[e][i].pc = "sleeping"
            /\ (tasks[e][i].pc = "sleeping" /\ ~tasks[e][i].cancel
                  /\ phase' = "running" /\ tasks'[e][i].pc # "sleeping")
                 => tasks'[e][i].pc = "connecting"]_vars
    /\ [][(scan.pc = "probing" /\ phase' = "running" /\ scan' # scan)
            => /\ scan'.pc = "delay"
               /\ scan'.list = scan.list
               /\ scan'.idx = scan.idx
               /\ \A e \in Entities : \A i \in TaskIds(e) :
                      tasks'[e][i] = tasks[e][i]]_vars

\* "a" waits for its retry after a session that failed or ended, "b" has
\* its session open, and scan_loop has gone on to a later pass
C15_Witness ==
    /\ phase = "running"
    /\ Len(tasks["a"]) = 1
    /\ Len(tasks["b"]) = 1
    /\ tasks["a"][1].pc = "sleeping"
    /\ ~tasks["a"][1].exc
    /\ tasks["b"][1].pc = "running"
    /\ scan.pc = "pass_sleep"

\* probes between the acquisition of a permit and the return of is_live
InFlight == IF scan.pc = "probing" THEN 1 ELSE 0

\* C16 (Spec): the permits taken from probe_sem and the probe clients not
\* yet disconnected are exactly those of the probes in flight, which are
\* never more than MAX_PROBE_CONCURRENCY: when no probe is in flight every
\* permit is free and every probe client has been disconnected.
C16_ProbeReleasesAll ==
    /\ probe_sem \in 0 .. MAX_PROBE_CONCURRENCY
    /\ MAX_PROBE_CONCURRENCY - probe_sem = InFlight
    /\ scan.clients = InFlight
    /\ InFlight <= MAX_PROBE_CONCURRENCY

\* a probe of "b" that did not answer true has returned, after a probe of
\* "a" that did
C16_Witness ==
    /\ scan.pc = "delay"
    /\ scan.list = <<"a", "b">>
    /\ scan.idx = 2
    /\ "a" \in everLive
    /\ "b" \notin everLive
    /\ probe_sem = MAX_PROBE_CONCURRENCY

\* C17 (SpecLive): the step that begins the shutdown sets stopping in every
\* CreatorState and requests the cancellation of every listener_loop task
\* that is not done.  From then on no task starts a connect(), opens a
\* session or starts a wait; a task leaves connect() or run() only into
\* the finally block, where idle_watch is cancelled and
\* client.disconnect() is called; and every task ends.
C17_ShutdownStopsAll ==
    /\ [](phase = "shutdown" =>
            /\ \A e \in DOMAIN states : states[e].stopping
            /\ \A e \in Entities : \A i \in TaskIds(e) :
                  \/ tasks[e][i].pc = "done"
                  \/ tasks[e][i].cancel
                  \/ tasks[e][i].pc = "finally" /\ tasks[e][i].exc)
    /\ [][phase = "shutdown" =>
            \A e \in Entities : \A i \in TaskIds(e) :
               /\ tasks'[e][i].pc = "connecting" => tasks[e][i].pc = "connecting"
               /\ tasks'[e][i].pc = "running" => tasks[e][i].pc = "running"
               /\ tasks'[e][i].pc = "sleeping" => tasks[e][i].pc = "sleeping"
               /\ (tasks[e][i].pc \in {"connecting", "running"}
                     /\ tasks'[e][i].pc # tasks[e][i].pc)
                    => /\ tasks'[e][i].pc = "finally"
                       /\ tasks'[e][i].idle = "none"
                       /\ tasks'[e][i].disconnects = tasks[e][i].disconnects + 1]_vars
    /\ (phase = "shutdown") ~>
          (\A e \in Entities : \A i \in TaskIds(e) : tasks[e][i].pc = "done")

\* the shutdown found the first session of "a" open: its task is in the
\* finally block with idle_watch cancelled and client.disconnect() called
C17_Witness ==
    /\ phase = "shutdown"
    /\ Len(tasks["a"]) = 1
    /\ tasks["a"][1].pc = "finally"
    /\ tasks["a"][1].exc
    /\ tasks["a"][1].delay = 0
    /\ "a" \notin probeFresh
    /\ tasks["a"][1].idle = "none"
    /\ tasks["a"][1].disconnects = 1

\* C18 (SpecGift): the repeat count on_gift uses is at least 1, and is 1
\* when the event's repeat count is not positive; the per-item value is 0
\* when the gift has neither value field; the total is their product.
C18_RepeatCountAtLeastOne ==
    gift.seen =>
        /\ gift.count >= 1
        /\ gift.repeat_count <= 0 => gift.count = 1
        /\ (gift.diamond_count = 0 /\ gift.diamond_value = 0) => gift.per_item = 0
        /\ gift.total = gift.per_item * gift.count

\* C19 (Spec): while the process runs no listener_loop task has ended,
\* whatever happened to its sessions; every creator has had at most one
\* listener_loop task created for it; and scan_loop probes no creator for
\* which a task has been created.
C19_OneTaskPerLifetime ==
    /\ phase = "running" =>
          \A e \in Entities : \A i \in TaskIds(e) : tasks[e][i].pc # "done"
    /\ \A e \in Entities : Len(tasks[e]) <= 1
    /\ scan.pc = "probing" => tasks[scan.list[scan.idx]] = << >>

\* the one task of "a" has its third session open, after two waits, while
\* scan_loop sleeps between passes
C19_Witness ==
    /\ phase = "running"
    /\ Len(tasks["a"]) = 1
    /\ tasks["a"][1].pc = "running"
    /\ tasks["a"][1].prevDelay > 0
    /\ scan.pc = "pass_sleep"

\* C20 (Spec): a step that changes self.creators changes nothing of
\* self.states and nothing of any task; no entry of self.states is ever
\* removed; a stopping flag is set by the shutdown step only; and a creator
\* that is supervised stays supervised while the process runs, in the
\* roster or out of it.
C20_RefreshChangesRosterOnly ==
    [][/\ creators' # creators => (states' = states /\ tasks' = tasks)
       /\ DOMAIN states \subseteq DOMAIN states'
       /\ \A e \in DOMAIN states :
             (states'[e].stopping /\ ~states[e].stopping)
                 => (phase = "running" /\ phase' = "shutdown")
       /\ \A e \in Entities :
             (Sup(e) /\ phase' = "running")
                 => /\ e \in DOMAIN states'
                    /\ states'[e].task = states[e].task
                    /\ tasks'[e][states'[e].task].pc # "done"]_vars

\* a refresh has taken "a" out of the roster; its state is still
\* registered, not stopping, and its session is open
C20_Witness ==
    /\ phase = "running"
    /\ lastRefresh = "ok"
    /\ ~InRoster("a")
    /\ "a" \in DOMAIN states
    /\ ~states["a"].stopping
    /\ Sup("a")
    /\ tasks["a"][states["a"].task].pc = "running"

====
